---- MODULE Spec2Model ----
(***************************************************************************)
(* News-to-comic generator: the generate-comic request of app.py, the      *)
(* script normalisation of summarizer.py, the per-panel rendering of       *)
(* image_generator.py and the bubble / grid compositing of                 *)
(* comic_assembler.py.                                                     *)
(*                                                                         *)
(* Python values are modelled as follows.  None is the record None.  A     *)
(* dict is a function whose DOMAIN is its key set.  A JSON value the       *)
(* script model may return is tagged by its kind (t).  A string that the   *)
(* code only measures and wraps (a dialogue) is the record                 *)
(* [chars, words]: its length in characters and the lengths of the words   *)
(* str.split() finds in it.  A file path is the tuple                      *)
(* <<comic_id, name, n>>.                                                  *)
(***************************************************************************)
EXTENDS Integers, Sequences, FiniteSets, TLC

\* ------------------------------------------------------------- bounds
\* Longest panel list the script model returns in the request pipeline.
MaxPanels == 2
\* Largest panel count handed to assemble_comic in the grid specification.
MaxGridPanels == 6
\* Most words of a dialogue handed to the bubble renderer.
MaxWords == 3
\* Longest raw panel list handed to the script normalisation on its own.
MaxRawPanels == 2
\* Number of generate_comic requests served at the same time.
MaxRequests == 2
\* Longest panel list handed to assemble_comic in any order.
MaxOrderPanels == 3
\* Most words of a dialogue of plain five-letter words handed to the bubble
\* renderer.
MaxSentenceWords == 80

\* ------------------------------------------------- program constants
panel_width == 512
panel_height == 512
border_width == 5
padding == 10
TitleBandHeight == 80
WrapWidth == 35
line_height == 35
bubble_padding == 25
BubbleSideMargin == 80
BubbleOffset == 40
shadow_offset == 5
TailHeight == 20
DefaultNumPanels == 4

DefaultLayout == "2x2"

None == [none |-> TRUE]

\* ---------------------------------------------------------- strings
\* The string of the given words joined by single blanks.
RECURSIVE SumSeq(_)
SumSeq(s) == IF s = <<>> THEN 0 ELSE Head(s) + SumSeq(Tail(s))

Str(ws) == [chars |-> SumSeq(ws) + (IF Len(ws) > 0 THEN Len(ws) - 1 ELSE 0),
            words |-> ws]
EmptyStr == Str(<<>>)
\* A string of one blank: not empty, yet without a word.
BlankStr == [chars |-> 1, words |-> <<>>]

\* Python truthiness of a string.
Truthy(s) == s.chars > 0

\* ------------------------------------------------------- summarizer.py
\* JSON values the script model may answer with.
PanelKeys == {"panel_number", "scene", "dialogue", "characters"}

\* Panel numbers the script model writes into its panels.
PanelNumbers == {1, 2}

\* A panel as the prompt asks for it.
FullPanel(n) ==
    [k \in PanelKeys |->
        CASE k = "panel_number" -> n
          [] k = "scene"        -> "scene text"
          [] k = "dialogue"     -> Str(<<5, 5>>)
          [] k = "characters"   -> <<"hero">>]

\* A panel holding a scene only.
SparsePanel == [k \in {"scene"} |-> "scene text"]

DictItem(d) == [t |-> "dict", d |-> d]
\* A panel-list entry that is no object (a number, null, a plain string).
NonObjectItem == [t |-> "nonobject"]
\* A panel-list entry that is no object but contains the four key names
\* (a list of them, a string quoting them): every `in` test finds its key.
NamesItem == [t |-> "names"]

\* dict.get(key, default)
Get(d, key, default) == IF key \in DOMAIN d THEN d[key] ELSE default

\* The loop body as it would be if it took a panel_number it finds for a
\* 0-based one and moved it up by one.
NormalizePanelRenumbering(panel, pos) ==
    LET p1 == IF "panel_number" \notin DOMAIN panel
                 THEN ("panel_number" :> pos) @@ panel
                 ELSE [panel EXCEPT !["panel_number"] = @ + 1]
        p2 == IF "characters" \notin DOMAIN p1
                 THEN ("characters" :> <<>>) @@ p1 ELSE p1
        p3 == IF "dialogue" \notin DOMAIN p2
                 THEN ("dialogue" :> EmptyStr) @@ p2 ELSE p2
        p4 == IF "scene" \notin DOMAIN p3
                 THEN ("scene" :> "Scene description") @@ p3 ELSE p3
    IN  p4

\* The field-filling body of the loop, for the panel at 1-based position
\* pos (the code's i + 1).
NormalizePanel(panel, pos) ==
    LET p1 == IF "panel_number" \notin DOMAIN panel
                 THEN ("panel_number" :> pos) @@ panel ELSE panel
        p2 == IF "characters" \notin DOMAIN p1
                 THEN ("characters" :> <<>>) @@ p1 ELSE p1
        p3 == IF "dialogue" \notin DOMAIN p2
                 THEN ("dialogue" :> EmptyStr) @@ p2 ELSE p2
        p4 == IF "scene" \notin DOMAIN p3
                 THEN ("scene" :> "Scene description") @@ p3 ELSE p3
    IN  p4

\* The loop as it would be if it numbered a panel by enumerate's index i
\* instead of i + 1.
NormalizePanelsZeroBased(items) ==
    [k \in 1..Len(items) |->
        IF items[k].t = "dict"
           THEN DictItem(NormalizePanel(items[k].d, k - 1))
           ELSE items[k]]

\* The loop over enumerate(script.get('panels', [])) on a list of objects.
NormalizePanels(items) ==
    [k \in 1..Len(items) |->
        IF items[k].t = "dict"
           THEN DictItem(NormalizePanel(items[k].d, k))
           ELSE items[k]]

\* An `in` test or item assignment of the loop raises TypeError on the entry.
LoopRaises(items) == \E k \in 1..Len(items) : items[k].t = "nonobject"

ListValue(v) == [t |-> "list", v |-> v]
\* A "panels" value that cannot be iterated (a number, null, a boolean).
ScalarValue == [t |-> "scalar"]

\* create_comic_script as it would be if its except branch answered with a
\* stand-in script instead of None.
create_comic_script_fallback(payload) ==
    IF /\ payload.t = "object"
       /\ "panels" \in DOMAIN payload.d
       /\ payload.d["panels"].t = "list"
       /\ ~LoopRaises(payload.d["panels"].v)
       THEN ("panels" :> ListValue(NormalizePanels(payload.d["panels"].v)))
            @@ payload.d
       ELSE [title |-> "News Comic",
             panels |-> ListValue(<<DictItem(FullPanel(1))>>)]

\* create_comic_script from the model's answer on: None on any exception,
\* else the parsed object with its panels normalised in place.
create_comic_script(payload) ==
    IF payload.t \in {"error", "notjson"} THEN None
    ELSE IF payload.t = "nonobject" THEN None
    ELSE IF payload.t = "emptyobject" THEN <<>>
    ELSE LET s == payload.d
         IN  IF "panels" \notin DOMAIN s THEN s
             ELSE IF s["panels"].t # "list" THEN None
             ELSE IF LoopRaises(s["panels"].v) THEN None
             ELSE ("panels" :> ListValue(NormalizePanels(s["panels"].v))) @@ s

\* `not script`
Falsy(s) == s = None \/ DOMAIN s = {}

\* script.get('panels', []) as the later stages read it.
PanelsOf(s) == IF "panels" \in DOMAIN s THEN s["panels"].v ELSE <<>>

\* ------------------------------------------------- comic_assembler.py
\* textwrap.TextWrapper(width=35).fill(text).split('\n'), as the lengths of
\* the lines.  The chunks of a text are its words with one blank between
\* two of them.
WordChunk(n) == [len |-> n, sp |-> FALSE]
SpaceChunk == [len |-> 1, sp |-> TRUE]

RECURSIVE Chunks(_)
Chunks(ws) ==
    IF ws = <<>> THEN <<>>
    ELSE IF Len(ws) = 1 THEN <<WordChunk(ws[1])>>
    ELSE <<WordChunk(ws[1]), SpaceChunk>> \o Chunks(Tail(ws))

\* How many leading chunks fit on a line already cur_len wide.
RECURSIVE TakeFit(_, _)
TakeFit(chunks, cur_len) ==
    IF chunks = <<>> THEN 0
    ELSE IF cur_len + Head(chunks).len <= WrapWidth
         THEN 1 + TakeFit(Tail(chunks), cur_len + Head(chunks).len)
         ELSE 0

RECURSIVE ChunkSum(_)
ChunkSum(chunks) ==
    IF chunks = <<>> THEN 0 ELSE Head(chunks).len + ChunkSum(Tail(chunks))

DropFirst(seq, k) == SubSeq(seq, k + 1, Len(seq))

\* TextWrapper._wrap_chunks: lines are filled greedily; a word longer than
\* the width is broken to fill the space left on the current line; blanks
\* at the start of a later line and at the end of any line are dropped.
\* A blank at the start of a line that is not the first is dropped.
DropLeadingBlank(chunks, lines) ==
    IF Head(chunks).sp /\ lines # <<>> THEN Tail(chunks) ELSE chunks

\* _handle_long_word: <<line, chunks left>> once a word longer than the
\* width that comes next has been broken at the space left on the line.
BreakLong(taken, rest) ==
    IF rest # <<>> /\ Head(rest).len > WrapWidth
       THEN <<Append(taken, WordChunk(WrapWidth - ChunkSum(taken))),
              <<WordChunk(Head(rest).len - (WrapWidth - ChunkSum(taken)))>>
                 \o Tail(rest)>>
       ELSE <<taken, rest>>

\* One line filled from the chunks: <<line, chunks left>>.
FillLine(chunks) ==
    BreakLong(SubSeq(chunks, 1, TakeFit(chunks, 0)),
              DropFirst(chunks, TakeFit(chunks, 0)))

\* A blank (or an empty piece) at the end of the line is dropped.
DropTrailingBlank(line) ==
    IF line # <<>> /\ (line[Len(line)].sp \/ line[Len(line)].len = 0)
       THEN SubSeq(line, 1, Len(line) - 1) ELSE line

\* The lines with the line just filled, unless nothing is left of it.
AppendLine(lines, line) ==
    IF line # <<>> THEN Append(lines, ChunkSum(line)) ELSE lines

RECURSIVE WrapChunks(_, _)
WrapFilled(filled, lines) ==
    WrapChunks(filled[2], AppendLine(lines, DropTrailingBlank(filled[1])))

WrapChunks(chunks, lines) ==
    IF chunks = <<>> THEN lines
    ELSE WrapFilled(FillLine(DropLeadingBlank(chunks, lines)), lines)

Wrap(text) == WrapChunks(Chunks(text.words), <<>>)

\* fill() joins the lines with newlines; splitting the empty string gives
\* one empty line.
WrappedLines(text) == IF Wrap(text) = <<>> THEN <<0>> ELSE Wrap(text)

\* An image is [width, height, src, drawn]: its size, the file it was
\* loaded from and the drawing operations applied to its pixels so far.
\* Two images are pixel-identical when these agree.
Ellipse(box, fill) == [op |-> "ellipse", at |-> box, fill |-> fill]
Polygon(points) == [op |-> "polygon", at |-> points, fill |-> "white"]
TextLine(y, n) == [op |-> "text", at |-> <<y, n>>, fill |-> "black"]

\* draw.text of the lines from text_y on; an empty line sets no pixel.
RECURSIVE DrawLines(_, _)
DrawLines(lines, text_y) ==
    IF lines = <<>> THEN <<>>
    ELSE (IF Head(lines) > 0 THEN <<TextLine(text_y, Head(lines))>> ELSE <<>>)
         \o DrawLines(Tail(lines), text_y + line_height)

\* lines 50-79: the shadow, the bubble and its tail for a bubble whose box
\* starts at (bubble_x, bubble_y).
BubbleShapes(position, bubble_x, bubble_y, bubble_width, bubble_height) ==
    << Ellipse(<<bubble_x + shadow_offset, bubble_y + shadow_offset,
                 bubble_x + bubble_width + shadow_offset,
                 bubble_y + bubble_height + shadow_offset>>, "#CCCCCC"),
       Ellipse(<<bubble_x, bubble_y,
                 bubble_x + bubble_width, bubble_y + bubble_height>>, "white"),
       Polygon(IF position = "bottom"
                  THEN << <<bubble_x + 60, bubble_y + bubble_height>>,
                          <<bubble_x + 40, bubble_y + bubble_height + TailHeight>>,
                          <<bubble_x + 80, bubble_y + bubble_height>> >>
                  ELSE << <<bubble_x + 60, bubble_y>>,
                          <<bubble_x + 40, bubble_y - TailHeight>>,
                          <<bubble_x + 80, bubble_y>> >>) >>

\* bubble_height = total_text_height + 2 * bubble_padding
BubbleHeight(lineCount) == lineCount * line_height + 2 * bubble_padding

\* lines 42-47: where the bubble's box starts.
BubbleY(img_height, bubble_height, position) ==
    IF position = "bottom" THEN img_height - bubble_height - BubbleOffset
    ELSE BubbleOffset

\* The drawing of add_text_to_panel for the wrapped lines.
DrawBubble(image, lines, position, bubble_y) ==
    [image EXCEPT !.drawn =
        @ \o BubbleShapes(position, BubbleOffset, bubble_y,
                          image.width - BubbleSideMargin,
                          BubbleHeight(Len(lines)))
          \o DrawLines(lines, bubble_y + bubble_padding)]

\* add_text_to_panel: the speech bubble drawn onto the image.
add_text_to_panel(image, text, position) ==
    DrawBubble(image, WrappedLines(text), position,
               BubbleY(image.height, BubbleHeight(Len(WrappedLines(text))),
                       position))

\* Image.open(image_path).resize((panel_width, panel_height))
OpenResized(image_path) ==
    [width |-> panel_width, height |-> panel_height, src |-> image_path,
     drawn |-> <<>>]

\* create_panel_with_border: None when the image cannot be opened (loads is
\* FALSE), else the panel, with its bubble if dialogue is truthy, on a black
\* ground border_width wider on every side.
create_panel_with_border(image_path, dialogue, loads) ==
    IF ~loads THEN None
    ELSE LET img0 == OpenResized(image_path)
             img == IF Truthy(dialogue)
                       THEN add_text_to_panel(img0, dialogue, "bottom") ELSE img0
         IN  [width |-> panel_width + 2 * border_width,
              height |-> panel_height + 2 * border_width,
              panel |-> img]

\* assemble_comic's first step as it would be if it took the panels in the
\* order the caller gives them.
KeepCallerOrder(seq) == seq

\* sorted(panel_images, key=panel_number): a stable insertion sort.
RECURSIVE InsertSorted(_, _)
InsertSorted(x, seq) ==
    IF seq = <<>> THEN <<x>>
    ELSE IF x.panel_number < Head(seq).panel_number THEN <<x>> \o seq
    ELSE <<Head(seq)>> \o InsertSorted(x, Tail(seq))

RECURSIVE SortByPanelNumber(_)
SortByPanelNumber(seq) ==
    IF seq = <<>> THEN <<>>
    ELSE InsertSorted(seq[Len(seq)],
                      SortByPanelNumber(SubSeq(seq, 1, Len(seq) - 1)))

\* The grid of assemble_comic for n panels: <<cols, rows>>.
GridShape(lay, n) ==
    IF lay = "2x2" \/ n = 4 THEN <<2, 2>>
    ELSE IF lay = "1x4" \/ n <= 4 THEN <<1, n>>
    ELSE <<2, (n + 1) \div 2>>

\* The loop over the sorted panels: the panels that compose, in order.
\* readable is the set of paths Image.open can load.
RECURSIVE BorderedPanels(_, _)
BorderedPanels(panels, readable) ==
    IF panels = <<>> THEN <<>>
    ELSE LET bordered == create_panel_with_border(panels[1].image_path,
                                               panels[1].dialogue,
                                               panels[1].image_path \in readable)
         IN  (IF bordered # None THEN <<bordered>> ELSE <<>>)
             \o BorderedPanels(Tail(panels), readable)

\* comic.paste of the idx-th bordered panel (idx counted from 0): where its
\* top-left corner goes and whether the panel lies on the canvas.
PasteAt(idx, cols, title_height, comic_width, comic_height) ==
    LET panel_full_width == panel_width + 2 * border_width
        panel_full_height == panel_height + 2 * border_width
        row == idx \div cols
        col == idx % cols
        x == col * panel_full_width + (col + 1) * padding
        y == row * panel_full_height + (row + 1) * padding + title_height
    IN  [row |-> row, col |-> col, x |-> x, y |-> y,
         on_canvas |-> /\ x + panel_full_width <= comic_width
                       /\ y + panel_full_height <= comic_height]

\* assemble_comic as it would be without its check that a panel composed.
compose_comic_unchecked(panels, title, lay, readable) ==
    IF panels = <<>> THEN None
    ELSE [cols |-> GridShape(lay, Len(panels))[1],
          rows |-> GridShape(lay, Len(panels))[2],
          n |-> Len(panels),
          bordered_panels |-> BorderedPanels(SortByPanelNumber(panels), readable),
          width |-> 0, height |-> 0, title |-> title, pasted |-> <<>>]

\* assemble_comic up to the save (lines 118-185): None when no panel is
\* given or none composes, else the grid, the bordered panels and the
\* composed canvas.
compose_comic(panels, title, lay, readable) ==
    IF panels = <<>> THEN None
    ELSE
      LET sorted == SortByPanelNumber(panels)
          shape == GridShape(lay, Len(sorted))
          cols == shape[1]
          rows == shape[2]
          bordered_panels == BorderedPanels(sorted, readable)
          panel_full_width == panel_width + 2 * border_width
          panel_full_height == panel_height + 2 * border_width
          title_height == IF title # "" THEN TitleBandHeight ELSE 0
          comic_width == cols * panel_full_width + (cols + 1) * padding
          comic_height == rows * panel_full_height + (rows + 1) * padding
                          + title_height
      IN  IF bordered_panels = <<>> THEN None
          ELSE [cols |-> cols, rows |-> rows,
                n |-> Len(sorted),
                bordered_panels |-> bordered_panels,
                width |-> comic_width, height |-> comic_height,
                title |-> title,
                pasted |-> [k \in 1..Len(bordered_panels) |->
                              PasteAt(k - 1, cols, title_height,
                                      comic_width, comic_height)]]

VARIABLES
    pc,                     \* position of the request / call
    data,                   \* request.json of generate_comic
    article,                \* article used for the script, or None
    payload,                \* what the script model answered; unset before
    script,                 \* the script create_comic_script returned, or None
    character_descriptions, \* what generate_character_descriptions returned
    client,                 \* image_generator.client is set (token configured)
    comic_id,               \* uuid of the request, "" before it is drawn
    i,                      \* loop index of generate_all_panels (1-based)
    attempt,                \* position inside generate_panel_image
    panel_images,           \* the list generate_all_panels builds
    files,                  \* file system: path -> what wrote it
    dirs,                   \* comic directories that exist
    writes,                 \* every file write so far, in order (paths)
    calls,                  \* every external call so far, in order
    response,               \* the JSON answer of generate_comic, or None
    layout,                 \* layout argument of assemble_comic
    grid,                   \* the canvas assemble_comic composed, or None
    result_path,            \* what assemble_comic returned; unset before
    bubble,                 \* state of the bubble renderer call
    threads                 \* the generate_comic requests served at once

vars == <<pc, data, article, payload, script, character_descriptions, client, comic_id,
          i, attempt, panel_images, files, dirs, writes, calls, response,
          layout, grid, result_path, bubble, threads>>

\* ---------------------------------------------------------------- app.py
\* POST /api/generate-comic: one request, from its JSON body to its answer.
NumPanelsChoices == {2, DefaultNumPanels}

Requests ==
    [url : {"", "http://news/a"}, title : {"", "Headline"},
     description : {"", "Summary"}, num_panels : NumPanelsChoices]

\* What fetch_article_content may return: None on any exception, else the
\* parsed article, whose text may be empty.
FetchResults == {None, [text |-> ""], [text |-> "page text"]}

\* Panel-list entries the script model may produce.
PanelItems ==
    {DictItem(FullPanel(n)) : n \in PanelNumbers}
    \cup {DictItem(SparsePanel), NonObjectItem, NamesItem}

PanelLists == UNION {[1..n -> PanelItems] : n \in 0..MaxPanels}

\* What the script model call may come to, markdown fences stripped.
Payloads ==
    {[t |-> "error"], [t |-> "notjson"], [t |-> "nonobject"],
     [t |-> "emptyobject"],
     [t |-> "object", d |-> [title |-> "Comic title"]],
     [t |-> "object", d |-> [title |-> "Comic title", panels |-> ScalarValue]]}
    \cup {[t |-> "object", d |-> [title |-> "Comic title", panels |-> ListValue(l)]]
            : l \in PanelLists}
    \cup {[t |-> "object", d |-> [panels |-> ListValue(l)]]
            : l \in {<<DictItem(FullPanel(1))>>}}

Fail(status, error) == [success |-> FALSE, status |-> status, error |-> error]

\* The path of a panel image as it would be if generate_all_panels did not
\* hand its output_dir on and generate_panel_image used its default,
\* 'static/comics'.
SharedPanelPath(id, n) == <<"", "panel", n>>

PanelPath(id, n) == <<id, "panel", n>>
FinalPath(id) == <<id, "final_comic", 0>>

\* file system after a write of path by writer
WriteFile(fs, path, writer) == (path :> writer) @@ fs

Init ==
    /\ pc = "request"
    /\ data \in Requests
    /\ client \in BOOLEAN
    /\ article = None
    /\ payload = [t |-> "unset"]
    /\ script = None
    /\ character_descriptions = [t |-> "unset"]
    /\ comic_id = ""
    /\ i = 1
    /\ attempt = "idle"
    /\ panel_images = <<>>
    /\ files = <<>>
    /\ dirs = {}
    /\ writes = <<>>
    /\ calls = <<>>
    /\ response = None
    /\ layout = DefaultLayout
    /\ grid = None
    /\ result_path = [t |-> "unset"]
    /\ bubble = None
    /\ threads = <<>>

\* An answer ends the request: nothing else changes.
Answer(r) ==
    /\ response' = r
    /\ pc' = "done"

\* lines 143-148: the request body is read; an empty url is refused.
ReceiveRequest ==
    /\ pc = "request"
    /\ IF data.url = ""
          THEN Answer(Fail(400, "Article URL is required"))
          ELSE pc' = "fetch" /\ UNCHANGED response
    /\ UNCHANGED <<data, article, payload, script, character_descriptions, client,
                   comic_id, i, attempt, panel_images, files, dirs, writes,
                   calls, layout, grid, result_path, bubble, threads>>

\* The fetch step as it would be if the stand-in article were built without
\* looking whether the request has a title or a description.
FetchArticleUnchecked ==
    /\ pc = "fetch"
    /\ \E fetched \in FetchResults :
         /\ calls' = Append(calls, "fetch")
         /\ article' = IF fetched = None \/ fetched.text = ""
                          THEN [text |-> "title. description",
                                title |-> data.title, url |-> data.url]
                          ELSE [text |-> fetched.text, title |-> "page title",
                                url |-> data.url]
         /\ pc' = "script"
    /\ UNCHANGED <<data, payload, script, character_descriptions, client,
                   comic_id, i, attempt, panel_images, files, dirs, writes,
                   response, layout, grid, result_path, bubble, threads>>

\* lines 150-167: the article is fetched; without text the title and the
\* description of the request stand in, and without those the request fails.
FetchArticle ==
    /\ pc = "fetch"
    /\ \E fetched \in FetchResults :
         /\ calls' = Append(calls, "fetch")
         /\ IF fetched = None \/ fetched.text = ""
               THEN IF data.title = "" /\ data.description = ""
                       THEN /\ Answer(Fail(400, "Could not fetch article content"))
                            /\ UNCHANGED article
                       ELSE /\ article' = [text |-> "title. description",
                                           title |-> data.title, url |-> data.url]
                            /\ pc' = "script"
                            /\ UNCHANGED response
               ELSE /\ article' = [text |-> fetched.text, title |-> "page title",
                                   url |-> data.url]
                    /\ pc' = "script"
                    /\ UNCHANGED response
    /\ UNCHANGED <<data, payload, script, character_descriptions, client, comic_id, i,
                   attempt, panel_images, files, dirs, writes, layout, grid,
                   result_path, bubble, threads>>

\* The script step as it would be if generate_comic answered on a missing
\* script without returning.
CreateScriptNoReturn ==
    /\ pc = "script"
    /\ payload' \in Payloads
    /\ calls' = Append(calls, "script")
    /\ script' = create_comic_script(payload')
    /\ response' = IF Falsy(script')
                       THEN Fail(500, "Could not create comic script")
                       ELSE response
    /\ pc' = "describe"
    /\ UNCHANGED <<data, article, character_descriptions, client, comic_id, i,
                   attempt, panel_images, files, dirs, writes, layout, grid,
                   result_path, bubble, threads>>

\* lines 169-174: the script model is asked for a script.
CreateScript ==
    /\ pc = "script"
    /\ payload' \in Payloads
    /\ calls' = Append(calls, "script")
    /\ script' = create_comic_script(payload')
    /\ IF Falsy(script')
          THEN Answer(Fail(500, "Could not create comic script"))
          ELSE pc' = "describe" /\ UNCHANGED response
    /\ UNCHANGED <<data, article, character_descriptions, client, comic_id, i,
                   attempt, panel_images, files, dirs, writes, layout, grid,
                   result_path, bubble, threads>>

\* Outcomes of the character-description call: a name -> description
\* mapping; a failure (the call raises, the answer is no JSON); a JSON value
\* that parses and has a length but is no such mapping (a list of the names,
\* an object with non-string values).
DescribeOutcomes == {"mapping", "failure", "notmapping"}

\* generate_character_descriptions reads panel.get('characters', []) of
\* every panel before its try block: an entry that is no object raises.
DescribeRaises(s) ==
    \E k \in 1..Len(PanelsOf(s)) : PanelsOf(s)[k].t # "dict"

AllCharacters(s) ==
    UNION {{Get(PanelsOf(s)[k].d, "characters", <<>>)[c] :
              c \in 1..Len(Get(PanelsOf(s)[k].d, "characters", <<>>))} :
           k \in 1..Len(PanelsOf(s))}

\* What generate_character_descriptions returns on a model outcome.
generate_character_descriptions(s, outcome) ==
    CASE outcome = "mapping"    -> [t |-> "mapping", names |-> AllCharacters(s)]
      [] outcome = "failure"    -> [t |-> "empty", names |-> {}]
      [] outcome = "notmapping" -> [t |-> "notmapping", names |-> AllCharacters(s)]

\* lines 176-182: character descriptions, then the comic's uuid.
DescribeCharacters ==
    /\ pc = "describe"
    /\ IF DescribeRaises(script)
          THEN /\ Answer(Fail(500, "exception"))
               /\ UNCHANGED <<character_descriptions, comic_id, attempt, calls>>
          ELSE /\ IF AllCharacters(script) = {}
                     THEN /\ character_descriptions' = [t |-> "empty", names |-> {}]
                          /\ UNCHANGED calls
                     ELSE \E outcome \in DescribeOutcomes :
                            /\ calls' = Append(calls, "describe")
                            /\ character_descriptions' =
                                 generate_character_descriptions(script, outcome)
               /\ comic_id' = "uuid-1"
               /\ pc' = "render"
               /\ attempt' = "prompt"
               /\ UNCHANGED response
    /\ UNCHANGED <<data, article, payload, script, client, i, panel_images, files, dirs,
                   writes, layout, grid, result_path, bubble, threads>>

\* ---------------------------------------------------- image_generator.py
\* The panel generate_all_panels is at, and its number.
CurrentPanel == PanelsOf(script)[i].d
CurrentNumber == Get(CurrentPanel, "panel_number", i)
CurrentPath == PanelPath(comic_id, CurrentNumber)

\* The prompt reads character_descriptions[char][:100] for the panel's
\* characters found in the descriptions: that raises unless the value is a
\* string.
PromptRaises(panel, descriptions) ==
    /\ Get(panel, "characters", <<>>) # <<>>
    /\ descriptions.t = "notmapping"
    /\ \E c \in 1..Len(Get(panel, "characters", <<>>)) :
         c <= 2 /\ Get(panel, "characters", <<>>)[c] \in descriptions.names

\* generate_panel_image returned filepath: generate_all_panels appends the
\* rendered panel and goes to the next one.
PanelDone ==
    /\ panel_images' = Append(panel_images,
                              [panel_number |-> CurrentNumber,
                               image_path |-> CurrentPath,
                               dialogue |-> Get(CurrentPanel, "dialogue", EmptyStr),
                               scene |-> Get(CurrentPanel, "scene", "")])
    /\ i' = i + 1
    /\ attempt' = "prompt"

\* image.save(filepath) / img.save(filepath)
SavePanel(writer) ==
    /\ files' = WriteFile(files, CurrentPath, writer)
    /\ writes' = Append(writes, CurrentPath)

\* The start of a panel as it would be if generate_panel_image entered the
\* loop over the models without looking at self.client.
StartPanelIgnoresClient ==
    /\ pc = "render" /\ attempt = "prompt"
    /\ i <= Len(PanelsOf(script))
    /\ dirs' = dirs \cup {comic_id}
    /\ IF PromptRaises(CurrentPanel, character_descriptions)
          THEN Answer(Fail(500, "exception")) /\ UNCHANGED attempt
          ELSE /\ attempt' = "Flux"
               /\ UNCHANGED <<pc, response>>
    /\ UNCHANGED <<data, article, payload, script, character_descriptions, client,
                   comic_id, i, panel_images, files, writes, calls, layout,
                   grid, result_path, bubble, threads>>

\* lines 163-169, 50-72: the next panel is taken up, its directory made and
\* its prompt built.
StartPanel ==
    /\ pc = "render" /\ attempt = "prompt"
    /\ i <= Len(PanelsOf(script))
    /\ dirs' = dirs \cup {comic_id}
    /\ IF PromptRaises(CurrentPanel, character_descriptions)
          THEN Answer(Fail(500, "exception")) /\ UNCHANGED attempt
          ELSE /\ attempt' = IF client THEN "Flux" ELSE "placeholder"
               /\ UNCHANGED <<pc, response>>
    /\ UNCHANGED <<data, article, payload, script, character_descriptions, client,
                   comic_id, i, panel_images, files, writes, calls, layout,
                   grid, result_path, bubble, threads>>

\* lines 73-87, first round: FLUX.1-schnell is asked for the image.
TryFlux ==
    /\ pc = "render" /\ attempt = "Flux"
    /\ calls' = Append(calls, "Flux")
    /\ \E generated \in BOOLEAN :
         IF generated
            THEN SavePanel("Flux") /\ PanelDone
            ELSE /\ attempt' = "Stable Diffusion"
                 /\ UNCHANGED <<files, writes, panel_images, i>>
    /\ UNCHANGED <<pc, data, article, payload, script, character_descriptions, client,
                   comic_id, dirs, response, layout, grid, result_path, bubble,
                   threads>>

\* lines 73-87, second round: Stable Diffusion XL is asked for the image.
TryStableDiffusion ==
    /\ pc = "render" /\ attempt = "Stable Diffusion"
    /\ calls' = Append(calls, "Stable Diffusion")
    /\ \E generated \in BOOLEAN :
         IF generated
            THEN SavePanel("Stable Diffusion") /\ PanelDone
            ELSE /\ attempt' = "placeholder"
                 /\ UNCHANGED <<files, writes, panel_images, i>>
    /\ UNCHANGED <<pc, data, article, payload, script, character_descriptions, client,
                   comic_id, dirs, response, layout, grid, result_path, bubble,
                   threads>>

\* The last round as it would be if generate_panel_image gave up on a panel
\* the models failed for: no file, no rendered panel.
PlaceholderSkipsPanel ==
    /\ pc = "render" /\ attempt = "placeholder"
    /\ i' = i + 1
    /\ attempt' = "prompt"
    /\ UNCHANGED <<pc, data, article, payload, script, character_descriptions,
                   client, comic_id, panel_images, files, dirs, writes, calls,
                   response, layout, grid, result_path, bubble, threads>>

\* lines 89-92: the placeholder is drawn and saved; an exception of
\* create_comic_placeholder is not caught before generate_comic.
Placeholder ==
    /\ pc = "render" /\ attempt = "placeholder"
    /\ calls' = Append(calls, "placeholder")
    /\ \E saved \in BOOLEAN :
         IF saved
            THEN /\ SavePanel("placeholder") /\ PanelDone
                 /\ UNCHANGED <<pc, response>>
            ELSE /\ Answer(Fail(500, "exception"))
                 /\ UNCHANGED <<files, writes, panel_images, i, attempt>>
    /\ UNCHANGED <<data, article, payload, script, character_descriptions, client,
                   comic_id, dirs, layout, grid, result_path, bubble,
                   threads>>

\* lines 185-190: generate_all_panels returns; an empty list is a failure.
FinishPanels ==
    /\ pc = "render" /\ attempt = "prompt"
    /\ i > Len(PanelsOf(script))
    /\ IF panel_images = <<>>
          THEN Answer(Fail(500, "Could not generate panel images"))
          ELSE pc' = "assemble" /\ UNCHANGED response
    /\ attempt' = "idle"
    /\ UNCHANGED <<data, article, payload, script, character_descriptions, client,
                   comic_id, i, panel_images, files, dirs, writes, calls,
                   layout, grid, result_path, bubble, threads>>

\* Paths of the images of a panel list.
ImagePaths(panels) == {panels[k].image_path : k \in 1..Len(panels)}

\* assemble_comic(panels, output_path, title, lay): the panels are composed
\* and pasted and the canvas saved.  unreadable are the image files
\* Image.open fails on; saved tells whether comic.save succeeds.  The call
\* returns output_path, or None when nothing composes or the save fails.
assemble_comic(panels, output_path, title, lay, unreadable, saved) ==
    /\ grid' = compose_comic(panels, title, lay, ImagePaths(panels) \ unreadable)
    /\ IF grid' # None /\ saved
          THEN /\ files' = WriteFile(files, output_path, "comic")
               /\ writes' = Append(writes, output_path)
               /\ result_path' = [t |-> "path", path |-> output_path]
          ELSE /\ UNCHANGED <<files, writes>>
               /\ result_path' = [t |-> "none"]

\* lines 192-212: generate_comic has the comic assembled, without a layout
\* argument, and answers.
Assemble ==
    /\ pc = "assemble"
    /\ \E unreadable \in SUBSET ImagePaths(panel_images), saved \in BOOLEAN :
         assemble_comic(panel_images, FinalPath(comic_id),
                           Get(script, "title", "News Comic"), DefaultLayout,
                           unreadable, saved)
    /\ calls' = Append(calls, "assemble")
    /\ IF result_path'.t = "none"
          THEN Answer(Fail(500, "Could not assemble comic"))
          ELSE Answer([success |-> TRUE, status |-> 200,
                       comic_url |-> FinalPath(comic_id),
                       title |-> Get(script, "title", "News Comic"),
                       script |-> script])
    /\ UNCHANGED <<data, article, payload, script, character_descriptions, client,
                   comic_id, i, attempt, panel_images, dirs, layout, bubble,
                   threads>>

Next ==
    \/ ReceiveRequest
    \/ FetchArticle
    \/ CreateScript
    \/ DescribeCharacters
    \/ StartPanel
    \/ TryFlux
    \/ TryStableDiffusion
    \/ Placeholder
    \/ FinishPanels
    \/ Assemble

Spec == Init /\ [][Next]_vars

\* ------------------------------------------- assemble_comic on its own
\* ComicAssembler.assemble_comic called with a list of up to MaxGridPanels
\* rendered panels numbered 1..n, a title and any layout argument.
Layouts == {DefaultLayout, "1x4", "auto"}

RenderedPanel(id, n) ==
    [panel_number |-> n, image_path |-> PanelPath(id, n),
     dialogue |-> Str(<<5, 5>>), scene |-> "scene text"]

RenderedPanels(id, n) == [k \in 1..n |-> RenderedPanel(id, k)]

PanelFiles(id, n) == [path \in {PanelPath(id, k) : k \in 1..n} |-> "Flux"]

InitGrid ==
    /\ pc = "assemble_comic"
    /\ \E n \in 0..MaxGridPanels :
         /\ panel_images = RenderedPanels("uuid-1", n)
         /\ files = PanelFiles("uuid-1", n)
         /\ writes = [k \in 1..n |-> PanelPath("uuid-1", k)]
    /\ layout \in Layouts
    /\ script \in {[title |-> ""], [title |-> "Comic title"]}
    /\ comic_id = "uuid-1"
    /\ dirs = {"uuid-1"}
    /\ data = None
    /\ client = TRUE
    /\ article = None
    /\ payload = [t |-> "unset"]
    /\ character_descriptions = [t |-> "unset"]
    /\ i = 1
    /\ attempt = "idle"
    /\ calls = <<>>
    /\ response = None
    /\ grid = None
    /\ result_path = [t |-> "unset"]
    /\ bubble = None
    /\ threads = <<>>

AssembleDirect ==
    /\ pc = "assemble_comic"
    /\ \E unreadable \in SUBSET ImagePaths(panel_images), saved \in BOOLEAN :
         assemble_comic(panel_images, FinalPath(comic_id), script.title,
                           layout, unreadable, saved)
    /\ pc' = "returned"
    /\ UNCHANGED <<data, article, payload, script, character_descriptions, client,
                   comic_id, i, attempt, panel_images, dirs, calls, response,
                   layout, bubble, threads>>

NextGrid == AssembleDirect

SpecGrid == InitGrid /\ [][NextGrid]_vars

\* ------------------------------------------ the bubble renderer on its own
\* add_text_to_panel and create_panel_with_border called on one panel image
\* with a dialogue of up to MaxWords words.
WordLengths == {4, 30, 40}

\* A dialogue of n five-letter words.
Sentence(n) == Str([k \in 1..n |-> 5])

Texts ==
    {Str(ws) : ws \in UNION {[1..n -> WordLengths] : n \in 0..MaxWords}}
    \cup {BlankStr}
    \cup {Sentence(n) : n \in 1..MaxSentenceWords}

InitBubble ==
    /\ pc = "bubble"
    /\ \E text \in Texts, position \in {"bottom", "top"} :
         bubble = [image |-> OpenResized(PanelPath("uuid-1", 1)),
                   text |-> text, position |-> position, called |-> "nothing"]
    /\ files = PanelFiles("uuid-1", 1)
    /\ writes = <<PanelPath("uuid-1", 1)>>
    /\ comic_id = "uuid-1"
    /\ dirs = {"uuid-1"}
    /\ data = None
    /\ client = TRUE
    /\ article = None
    /\ payload = [t |-> "unset"]
    /\ script = None
    /\ character_descriptions = [t |-> "unset"]
    /\ i = 1
    /\ attempt = "idle"
    /\ panel_images = <<>>
    /\ calls = <<>>
    /\ response = None
    /\ layout = DefaultLayout
    /\ grid = None
    /\ result_path = [t |-> "unset"]
    /\ threads = <<>>

\* add_text_to_panel(image, text, position) called on the panel image.
CallAddTextToPanel ==
    /\ pc = "bubble"
    /\ bubble' = [bubble EXCEPT
                    !.image = add_text_to_panel(bubble.image, bubble.text,
                                             bubble.position),
                    !.called = "add_text_to_panel"]
    /\ pc' = "returned"
    /\ UNCHANGED <<data, article, payload, script, character_descriptions, client,
                   comic_id, i, attempt, panel_images, files, dirs, writes,
                   calls, response, layout, grid, result_path, threads>>

\* create_panel_with_border(image_path, dialogue) called for the panel
\* image; the image is what lies inside the border.
CallCreatePanelWithBorder ==
    /\ pc = "bubble"
    /\ bubble' = [bubble EXCEPT
                    !.image = create_panel_with_border(bubble.image.src,
                                                    bubble.text, TRUE).panel,
                    !.called = "create_panel_with_border"]
    /\ pc' = "returned"
    /\ UNCHANGED <<data, article, payload, script, character_descriptions, client,
                   comic_id, i, attempt, panel_images, files, dirs, writes,
                   calls, response, layout, grid, result_path, threads>>

NextBubble == CallAddTextToPanel \/ CallCreatePanelWithBorder

SpecBubble == InitBubble /\ [][NextBubble]_vars

\* ------------------------------------- the script normalisation on its own
\* create_comic_script on an answer of the script model whose panels are
\* objects over the four fields, any of them missing, and once more on the
\* script that came of it (the model answering with that very script).
RawPanel(keys, n) == [k \in keys |-> FullPanel(n)[k]]

RawPanels == {RawPanel(keys, n) : keys \in SUBSET PanelKeys, n \in PanelNumbers}

RawPanelLists ==
    UNION {[1..n -> {DictItem(p) : p \in RawPanels}] : n \in 0..MaxRawPanels}

RawPayloads ==
    {[t |-> "object", d |-> [title |-> "Comic title", panels |-> ListValue(l)]]
        : l \in RawPanelLists}

InitNormalize ==
    /\ pc = "create_comic_script"
    /\ payload = [t |-> "unset"]
    /\ script = None
    /\ data = None
    /\ client = TRUE
    /\ article = None
    /\ character_descriptions = [t |-> "unset"]
    /\ comic_id = ""
    /\ i = 1
    /\ attempt = "idle"
    /\ panel_images = <<>>
    /\ files = <<>>
    /\ dirs = {}
    /\ writes = <<>>
    /\ calls = <<>>
    /\ response = None
    /\ layout = DefaultLayout
    /\ grid = None
    /\ result_path = [t |-> "unset"]
    /\ bubble = None
    /\ threads = <<>>

\* create_comic_script on a raw answer of the model.
NormalizeRaw ==
    /\ pc = "create_comic_script"
    /\ payload' \in RawPayloads
    /\ script' = create_comic_script(payload')
    /\ pc' = "normalized"
    /\ UNCHANGED <<data, article, character_descriptions, client, comic_id, i,
                   attempt, panel_images, files, dirs, writes, calls, response,
                   layout, grid, result_path, bubble, threads>>

\* create_comic_script on the script the first call returned.
NormalizeAgain ==
    /\ pc = "normalized"
    /\ payload' = [t |-> "object", d |-> script]
    /\ script' = create_comic_script(payload')
    /\ pc' = "renormalized"
    /\ UNCHANGED <<data, article, character_descriptions, client, comic_id, i,
                   attempt, panel_images, files, dirs, writes, calls, response,
                   layout, grid, result_path, bubble, threads>>

NextNormalize == NormalizeRaw \/ NormalizeAgain

SpecNormalize == InitNormalize /\ [][NextNormalize]_vars

\* --------------------------------------- several requests served at once
\* The development server serves each request in a thread of its own; the
\* threads share the file system and the module-level objects of app.py.
\* A thread is followed from the drawing of its comic_id on, through every
\* access to the file system: the making of the output directory and the
\* saving of each panel image in generate_panel_image, the opening of each
\* panel image and the saving of the comic in assemble_comic.
RequestIds == 1..MaxRequests

\* uuid.uuid4() draws from so large a space that two draws never agree:
\* a draw is any identifier no other request holds.
UuidPool == <<"uuid-1", "uuid-2", "uuid-3", "uuid-4">>
ComicIds == {UuidPool[k] : k \in 1..MaxRequests}

\* The panel numbers of the script a request has got.
ScriptNumbers == {<<1>>, <<1, 2>>}

Thread(numbers) ==
    [pc |-> "uuid", panel_numbers |-> numbers, comic_id |-> "", i |-> 1,
     panel_images |-> <<>>, made |-> {}, writes |-> <<>>, opened |-> <<>>,
     response |-> None]

InitConcurrent ==
    /\ pc = "serving"
    /\ threads \in [RequestIds -> {Thread(numbers) : numbers \in ScriptNumbers}]
    /\ client = TRUE
    /\ files = <<>>
    /\ dirs = {}
    /\ writes = <<>>
    /\ data = None
    /\ article = None
    /\ payload = [t |-> "unset"]
    /\ script = None
    /\ character_descriptions = [t |-> "unset"]
    /\ comic_id = ""
    /\ i = 1
    /\ attempt = "idle"
    /\ panel_images = <<>>
    /\ calls = <<>>
    /\ response = None
    /\ layout = DefaultLayout
    /\ grid = None
    /\ result_path = [t |-> "unset"]
    /\ bubble = None

\* The path generate_panel_image saves the panel a thread is at to.
ThreadPanelPath(r) ==
    PanelPath(threads[r].comic_id, threads[r].panel_numbers[threads[r].i])

\* app.py line 182: comic_id = str(uuid.uuid4())
DrawComicId(r) ==
    /\ threads[r].pc = "uuid"
    /\ \E id \in ComicIds \ {threads[q].comic_id : q \in RequestIds} :
         threads' = [threads EXCEPT ![r].comic_id = id, ![r].pc = "mkdir"]
    /\ UNCHANGED <<pc, data, article, payload, script, character_descriptions,
                   client, comic_id, i, attempt, panel_images, files, dirs,
                   writes, calls, response, layout, grid, result_path, bubble>>

\* image_generator.py line 50: Path(output_dir).mkdir(parents=True,
\* exist_ok=True), output_dir being the directory of the panel's path.
MakeDir(r) ==
    /\ threads[r].pc = "mkdir"
    /\ dirs' = dirs \cup {ThreadPanelPath(r)[1]}
    /\ threads' = [threads EXCEPT ![r].made = @ \cup {ThreadPanelPath(r)[1]},
                                  ![r].pc = "save"]
    /\ UNCHANGED <<pc, data, article, payload, script, character_descriptions,
                   client, comic_id, i, attempt, panel_images, files, writes,
                   calls, response, layout, grid, result_path, bubble>>

\* image_generator.py lines 81 / 152 and 177-183: the panel image is saved
\* and the rendered panel appended; after the last panel assemble_comic is
\* entered.
SavePanelImage(r) ==
    /\ threads[r].pc = "save"
    /\ files' = WriteFile(files, ThreadPanelPath(r), r)
    /\ writes' = Append(writes, ThreadPanelPath(r))
    /\ threads' =
         [threads EXCEPT
            ![r].writes = Append(@, ThreadPanelPath(r)),
            ![r].panel_images =
                Append(@, [panel_number |-> threads[r].panel_numbers[threads[r].i],
                           image_path |-> ThreadPanelPath(r)]),
            ![r].i = IF threads[r].i = Len(threads[r].panel_numbers)
                        THEN 1 ELSE @ + 1,
            ![r].pc = IF threads[r].i = Len(threads[r].panel_numbers)
                         THEN "open" ELSE "mkdir"]
    /\ UNCHANGED <<pc, data, article, payload, script, character_descriptions,
                   client, comic_id, i, attempt, panel_images, dirs, calls,
                   response, layout, grid, result_path, bubble>>

\* comic_assembler.py line 98: Image.open(image_path) of the next rendered
\* panel; what is read is what was last written to that path.
OpenPanelImage(r) ==
    /\ threads[r].pc = "open"
    /\ threads' =
         [threads EXCEPT
            ![r].opened =
                Append(@, [path |-> threads[r].panel_images[threads[r].i].image_path,
                           by |-> files[threads[r].panel_images[threads[r].i].image_path]]),
            ![r].i = @ + 1,
            ![r].pc = IF threads[r].i = Len(threads[r].panel_images)
                         THEN "save_comic" ELSE "open"]
    /\ UNCHANGED <<pc, data, article, payload, script, character_descriptions,
                   client, comic_id, i, attempt, panel_images, files, dirs,
                   writes, calls, response, layout, grid, result_path, bubble>>

\* comic_assembler.py line 189 and app.py lines 205-212: the comic is saved
\* and the request answered.
SaveComic(r) ==
    /\ threads[r].pc = "save_comic"
    /\ files' = WriteFile(files, FinalPath(threads[r].comic_id), r)
    /\ writes' = Append(writes, FinalPath(threads[r].comic_id))
    /\ threads' =
         [threads EXCEPT
            ![r].writes = Append(@, FinalPath(threads[r].comic_id)),
            ![r].response = [success |-> TRUE, status |-> 200,
                             comic_url |-> FinalPath(threads[r].comic_id)],
            ![r].pc = "done"]
    /\ UNCHANGED <<pc, data, article, payload, script, character_descriptions,
                   client, comic_id, i, attempt, panel_images, dirs, calls,
                   response, layout, grid, result_path, bubble>>

NextConcurrent ==
    \E r \in RequestIds :
        \/ DrawComicId(r)
        \/ MakeDir(r)
        \/ SavePanelImage(r)
        \/ OpenPanelImage(r)
        \/ SaveComic(r)

SpecConcurrent == InitConcurrent /\ [][NextConcurrent]_vars

\* ------------------------------- assemble_comic on panels in any order
\* assemble_comic called with up to MaxOrderPanels rendered panels of
\* distinct panel numbers, in any order, some of whose image files
\* Image.open cannot load.
OrderNumbers == 1..(MaxOrderPanels + 1)

Injective(f) == \A a, b \in DOMAIN f : a # b => f[a] # f[b]

NumberOrders ==
    UNION {{f \in [1..n -> OrderNumbers] : Injective(f)} : n \in 1..MaxOrderPanels}

InitOrder ==
    /\ pc = "assemble_comic"
    /\ \E numbers \in NumberOrders :
         /\ panel_images = [k \in 1..Len(numbers) |->
                              RenderedPanel("uuid-1", numbers[k])]
         /\ files \in [{PanelPath("uuid-1", numbers[k]) : k \in 1..Len(numbers)}
                         -> {"Flux", "corrupt"}]
         /\ writes = [k \in 1..Len(numbers) |-> PanelPath("uuid-1", numbers[k])]
    /\ layout \in Layouts
    /\ script = [title |-> "Comic title"]
    /\ comic_id = "uuid-1"
    /\ dirs = {"uuid-1"}
    /\ data = None
    /\ client = TRUE
    /\ article = None
    /\ payload = [t |-> "unset"]
    /\ character_descriptions = [t |-> "unset"]
    /\ i = 1
    /\ attempt = "idle"
    /\ calls = <<>>
    /\ response = None
    /\ grid = None
    /\ result_path = [t |-> "unset"]
    /\ bubble = None
    /\ threads = <<>>

\* The image files Image.open fails on.
CorruptFiles == {path \in DOMAIN files : files[path] = "corrupt"}

AssembleStored ==
    /\ pc = "assemble_comic"
    /\ \E saved \in BOOLEAN :
         assemble_comic(panel_images, FinalPath(comic_id), script.title,
                        layout, CorruptFiles, saved)
    /\ pc' = "returned"
    /\ UNCHANGED <<data, article, payload, script, character_descriptions, client,
                   comic_id, i, attempt, panel_images, dirs, calls, response,
                   layout, bubble, threads>>

NextOrder == AssembleStored

SpecOrder == InitOrder /\ [][NextOrder]_vars

\* ================================================================ claims
Answered == response # None
Succeeded == response # None /\ response.success
FinalComicWritten == \E path \in DOMAIN files : path[2] = "final_comic"
Called(name) == \E k \in 1..Len(calls) : calls[k] = name

\* The answer of the script model is not of the expected structure: no JSON,
\* no object, or an object without a list of panel objects.
Malformed(p) ==
    \/ p.t \in {"notjson", "nonobject", "emptyobject"}
    \/ /\ p.t = "object"
       /\ \/ "panels" \notin DOMAIN p.d
          \/ p.d["panels"].t # "list"
          \/ \E k \in 1..Len(p.d["panels"].v) : p.d["panels"].v[k].t # "dict"

\* C1 (as claimed): for every panel count N in 1..6 handed to assemble_comic
\* with the layout argument left at its default, the chosen grid has
\* cols x rows >= N, and for N = 4 it is 2 columns x 2 rows.
C1_DefaultGridHoldsEveryPanel ==
    (pc = "returned" /\ layout = DefaultLayout /\ grid # None /\ grid.n <= 6)
        => /\ grid.cols * grid.rows >= grid.n
           /\ grid.n = 4 => (grid.cols = 2 /\ grid.rows = 2)

\* The reference policy of the grid shape: exactly 4 panels -> 2 x 2; else up
\* to 4 panels -> 1 x N; else 2 x ceil(N / 2).
ReferenceGrid(n) ==
    IF n = 4 THEN <<2, 2>>
    ELSE IF n <= 4 THEN <<1, n>>
    ELSE <<2, (n \div 2) + (IF n % 2 = 0 THEN 0 ELSE 1)>>

\* C2 (as claimed): the (cols, rows) pair assemble_comic chooses for N >= 1
\* panels is the reference policy's.
C2_GridIsReferencePolicy ==
    (pc = "returned" /\ grid # None)
        => <<grid.cols, grid.rows>> = ReferenceGrid(grid.n)

\* C3 (as claimed): whenever generate_comic answers success, the assembled
\* comic holds one composed panel for every panel of the script.
C3_SuccessIsComplete ==
    Succeeded
        => /\ grid # None
           /\ Len(grid.bordered_panels) = Len(PanelsOf(script))

\* C4 (as claimed): every script create_comic_script returns has the panel
\* numbers 1..N, N = num_panels, each once and in ascending order.
C4_PanelNumbersAreOneToN ==
    (payload.t = "object" /\ ~Malformed(payload) /\ script # None)
        => /\ Len(PanelsOf(script)) = data.num_panels
           /\ \A k \in 1..Len(PanelsOf(script)) :
                /\ PanelsOf(script)[k].t = "dict"
                /\ PanelsOf(script)[k].d["panel_number"] = k

\* The states of C5: generate_all_panels holds one rendered panel for every
\* script panel it has passed, and at the assembly one per script panel,
\* with the panel's number and a file that exists.
C5_RenderedPanelPerScriptPanel ==
    /\ pc = "render" => Len(panel_images) = i - 1
    /\ pc = "assemble"
         => /\ Len(panel_images) = Len(PanelsOf(script))
            /\ \A k \in 1..Len(panel_images) :
                 /\ panel_images[k].panel_number
                      = PanelsOf(script)[k].d["panel_number"]
                 /\ panel_images[k].image_path \in DOMAIN files

\* The steps of C5: a failure of the image model never ends the request
\* and leads on to the next provider and at last to the placeholder; a
\* placeholder that is saved gives the panel its rendered panel; a script of
\* N >= 1 panels goes on to the assembly.
C5_ModelFailureStep ==
    /\ (pc = "render" /\ attempt \in {"Flux", "Stable Diffusion"})
         => pc' = "render"
    /\ (pc = "render" /\ attempt = "Flux" /\ i' = i)
         => attempt' = "Stable Diffusion"
    /\ (pc = "render" /\ attempt = "Stable Diffusion" /\ i' = i)
         => attempt' = "placeholder"
    /\ (pc = "render" /\ attempt = "placeholder" /\ pc' = "render")
         => /\ i' = i + 1
            /\ panel_images' # panel_images
            /\ files'[panel_images'[i].image_path] = "placeholder"
    /\ (pc = "render" /\ attempt = "prompt" /\ i > Len(PanelsOf(script))
        /\ Len(PanelsOf(script)) >= 1)
         => pc' = "assemble"

C6_NoArticleNoScriptCall ==
    (/\ Called("fetch")
     /\ (article = None \/ article.text # "page text")
     /\ data.title = "" /\ data.description = "")
        => /\ pc = "done"
           /\ Answered /\ ~response.success
           /\ calls = <<"fetch">>
           /\ script = None /\ payload.t = "unset"
           /\ files = <<>>

\* C6 witness: the fetch gave nothing for a request without title and
\* description, and the request was answered 400 after that one call.
C6_Witness ==
    /\ pc = "done" /\ calls = <<"fetch">>
    /\ data.title = "" /\ data.description = ""
    /\ article = None
    /\ Answered /\ response.status = 400

\* C7: when no panel composes (the panel list is empty, or no panel image
\* loads), assemble_comic returns None and writes no file, and
\* generate_comic answers with a failure.
C7_NothingComposedIsFailure ==
    /\ \A lay \in Layouts : compose_comic(<<>>, "Comic title", lay, {}) = None
    /\ (pc = "done" /\ result_path.t # "unset"
        /\ (grid = None \/ grid.bordered_panels = <<>>))
         => /\ result_path.t = "none"
            /\ ~FinalComicWritten
            /\ ~response.success
    /\ (pc = "done" /\ comic_id # "" /\ panel_images = <<>>)
         => ~FinalComicWritten /\ ~response.success

\* C7 witness: two rendered panels, neither image loads; assemble_comic
\* returned None, nothing was saved and the answer is a failure.
C7_Witness ==
    /\ pc = "done" /\ result_path.t = "none" /\ grid = None
    /\ Len(panel_images) = 2
    /\ ~FinalComicWritten /\ response.error = "Could not assemble comic"

\* C8 (as claimed): within a request no path is written more than once.
C8_EveryWriteIsANewFile ==
    \A a, b \in 1..Len(writes) : a # b => writes[a] # writes[b]

\* C9 (as claimed): add_text_to_panel called with empty text leaves the
\* image pixel-identical.
C9_EmptyTextDrawsNothing ==
    (pc = "returned" /\ bubble # None /\ bubble.called = "add_text_to_panel"
     /\ bubble.text = EmptyStr)
        => bubble.image = OpenResized(bubble.image.src)

\* C10: after a malformed answer of the script model the request never
\* answers success and no final comic is written; once it has ended, its
\* answer is a failure.
C10_MalformedScriptIsFailure ==
    Malformed(payload)
        => /\ ~Succeeded
           /\ ~FinalComicWritten
           /\ pc = "done" => (Answered /\ ~response.success)
           /\ pc \in {"describe", "render", "done"}

\* C10 witness: an object without "panels" passes create_comic_script and
\* fails only when no panel image comes of it.
C10_Witness ==
    /\ pc = "done" /\ Malformed(payload) /\ script # None
    /\ Answered /\ response.error = "Could not generate panel images"

\* C11: the field-filling loop is idempotent: run on a script it has already
\* normalised (panels over the four fields, any of them missing in the raw
\* answer), create_comic_script returns that same script.
C11_NormalizationIsIdempotent ==
    pc = "renormalized" => (script # None /\ script = payload.d)

\* C11 witness: a two-panel script normalised twice; the first panel kept
\* the number 2 it came with, the second had neither number nor scene.
C11_Witness ==
    /\ pc = "renormalized" /\ script # None
    /\ Len(PanelsOf(script)) = 2
    /\ PanelsOf(script)[1].d["panel_number"] = 2
    /\ PanelsOf(script)[2].d["panel_number"] = 2
    /\ PanelsOf(script)[2].d["scene"] = "Scene description"

\* C12: a raw panel without panel_number gets its 0-based position + 1; a
\* panel that carries a panel_number keeps it; the panels stay in their
\* order, each with the fields it came with.
C12_MissingNumberIsPosition ==
    pc = "normalized"
        => /\ script # None
           /\ Len(PanelsOf(script)) = Len(payload.d["panels"].v)
           /\ \A k \in 1..Len(PanelsOf(script)) :
                /\ PanelsOf(script)[k].d["panel_number"]
                     = IF "panel_number" \in DOMAIN payload.d["panels"].v[k].d
                          THEN payload.d["panels"].v[k].d["panel_number"]
                          ELSE (k - 1) + 1
                /\ \A key \in DOMAIN payload.d["panels"].v[k].d :
                     PanelsOf(script)[k].d[key] = payload.d["panels"].v[k].d[key]

\* C12 witness: of two raw panels the first carries the number 2 and the
\* second none; the first keeps 2 and the second gets 2, its position.
C12_Witness ==
    /\ pc = "normalized"
    /\ Len(payload.d["panels"].v) = 2
    /\ "panel_number" \in DOMAIN payload.d["panels"].v[1].d
    /\ payload.d["panels"].v[1].d["panel_number"] = 2
    /\ "panel_number" \notin DOMAIN payload.d["panels"].v[2].d
    /\ PanelsOf(script)[2].d["panel_number"] = 2

\* generate_comic ended on an exception raised while generate_panel_image
\* built the prompt of a panel.
AbortedInPrompt ==
    /\ pc = "done" /\ attempt = "prompt"
    /\ ~response.success /\ response.error = "exception"

\* C13 (as claimed): when the character-description call has not given a
\* name-to-description mapping (it raised, or answered something else), the
\* request goes on to the panel rendering and is not aborted because of it.
C13_DescriptionFailureIsNotFatal ==
    (Called("describe") /\ character_descriptions.t # "mapping")
        => /\ pc \in {"render", "assemble", "done"}
           /\ ~AbortedInPrompt

\* The paths a sequence of writes went to.
PathsOf(seq) == {seq[k] : k \in 1..Len(seq)}

\* C14: under any interleaving of the requests served at once, each request
\* has an identifier of its own, makes and writes only below its own
\* static/comics/<comic_id>/, no directory or file is made or written by two
\* requests, and every image a request opens is the one it wrote itself (the
\* file system being the one mutable state the requests share).
C14_RequestsShareNothing ==
    /\ \A r \in RequestIds :
         /\ threads[r].made \subseteq {threads[r].comic_id}
         /\ \A path \in PathsOf(threads[r].writes) :
              path[1] = threads[r].comic_id
         /\ \A k \in 1..Len(threads[r].opened) : threads[r].opened[k].by = r
         /\ threads[r].pc # "uuid" => threads[r].comic_id # ""
    /\ \A r, q \in RequestIds :
         r # q
           => /\ threads[r].comic_id # ""
                   => threads[r].comic_id # threads[q].comic_id
              /\ threads[r].made \cap threads[q].made = {}
              /\ PathsOf(threads[r].writes) \cap PathsOf(threads[q].writes) = {}

\* C14 witness: two requests, each with a two-panel script, ran interleaved
\* (the writes alternate between them) and both are answered.
C14_Witness ==
    /\ threads # <<>>
    /\ \A r \in {1, 2} :
         /\ threads[r].pc = "done"
         /\ Len(threads[r].writes) = 3
         /\ Len(threads[r].opened) = 2
    /\ writes[1][1] # writes[2][1]
    /\ writes[2][1] # writes[3][1]
    /\ writes[3][1] # writes[4][1]

\* The stage an external call belongs to.
StageOf(call) ==
    CASE call = "fetch" -> 1
      [] call = "script" -> 2
      [] call = "describe" -> 3
      [] call \in {"Flux", "Stable Diffusion", "placeholder"} -> 4
      [] call = "assemble" -> 5

CountCalls(name) == Cardinality({k \in 1..Len(calls) : calls[k] = name})

\* The request stands before a step of generate_comic: one of the guards of
\* its steps holds.
NextStageReady ==
    \/ pc \in {"request", "fetch", "script", "describe", "assemble"}
    \/ /\ pc = "render"
       /\ \/ attempt = "prompt"
          \/ /\ attempt \in {"Flux", "Stable Diffusion", "placeholder"}
             /\ i <= Len(PanelsOf(script))

\* The states of C15: the calls made so far are in the order of the stages,
\* each of fetch, script, describe and assemble made at most once; a stage
\* has begun only when the one before it has given its result; the panels
\* rendered so far are the first panels of the script, in its order; the
\* request is ended exactly when it has its one answer, and until then it
\* can go on.
C15_StagesInOrderState ==
    /\ \A a, b \in 1..Len(calls) : a < b => StageOf(calls[a]) <= StageOf(calls[b])
    /\ \A name \in {"fetch", "script", "describe", "assemble"} :
         CountCalls(name) <= 1
    /\ Called("script") => (calls[1] = "fetch" /\ article # None)
    /\ (\E k \in 1..Len(calls) : StageOf(calls[k]) >= 3)
         => (calls[2] = "script" /\ ~Falsy(script))
    /\ (\E k \in 1..Len(calls) : StageOf(calls[k]) >= 4)
         => (character_descriptions.t # "unset" /\ comic_id # "")
    /\ Called("assemble")
         => (panel_images # <<>> /\ Len(panel_images) = Len(PanelsOf(script)))
    /\ panel_images # <<>>
         => /\ Len(panel_images) <= Len(PanelsOf(script))
            /\ \A k \in 1..Len(panel_images) :
                 panel_images[k].panel_number
                   = PanelsOf(script)[k].d["panel_number"]
    /\ pc = "done" <=> response # None
    /\ pc # "done" => NextStageReady

\* The steps of C15: nothing happens once the request is answered (no stage
\* runs after a failure, and the answer is never replaced); a step makes at
\* most one call and renders at most one panel.
C15_StagesInOrderStep ==
    /\ response = None
    /\ calls' = calls \/ (Len(calls') = Len(calls) + 1
                           /\ SubSeq(calls', 1, Len(calls)) = calls)
    /\ panel_images' = panel_images
         \/ (Len(panel_images') = Len(panel_images) + 1
             /\ SubSeq(panel_images', 1, Len(panel_images)) = panel_images)

\* C15: in every execution of a generate_comic request the stages run in
\* the order fetch, script, describe, render (panel by panel, in script
\* order), assemble, each after the one before it has completed; no stage
\* runs after a terminal failure and the request has exactly one outcome.
C15_StagesRunInOrder ==
    /\ []C15_StagesInOrderState
    /\ [][C15_StagesInOrderStep]_vars

\* C15 witness: a request that ran every stage and succeeded, its first
\* panel falling back to the placeholder and its second rendered by Flux.
C15_Witness ==
    /\ pc = "done" /\ Succeeded
    /\ calls = <<"fetch", "script", "describe", "Flux", "Stable Diffusion",
                 "placeholder", "Flux", "assemble">>

\* The positions of the panels handed to assemble_comic whose image loads.
Composing ==
    {k \in 1..Len(panel_images) : panel_images[k].image_path \notin CorruptFiles}

\* How many composing panels have a smaller panel_number than the k-th.
RankOf(k) ==
    Cardinality({j \in Composing :
                   panel_images[j].panel_number < panel_images[k].panel_number})

Reorderings(n) == {f \in [1..n -> 1..n] : Injective(f)}

\* C16: assemble_comic gives the same result for every order of a panel
\* list with distinct panel_numbers, and the panel with the k-th smallest
\* panel_number among those that compose (k from 0) is pasted at row
\* k div cols, column k mod cols.
C16_CallerOrderIsNotTrusted ==
    (pc = "returned" /\ panel_images # <<>>)
        => /\ \A f \in Reorderings(Len(panel_images)) :
                compose_comic([k \in 1..Len(panel_images) |-> panel_images[f[k]]],
                              script.title, layout,
                              ImagePaths(panel_images) \ CorruptFiles) = grid
           /\ grid = None <=> Composing = {}
           /\ grid # None
                => /\ Len(grid.bordered_panels) = Cardinality(Composing)
                   /\ \A k \in Composing :
                        /\ grid.bordered_panels[RankOf(k) + 1].panel.src
                             = panel_images[k].image_path
                        /\ grid.pasted[RankOf(k) + 1].row = RankOf(k) \div grid.cols
                        /\ grid.pasted[RankOf(k) + 1].col = RankOf(k) % grid.cols

\* C16 witness: the panels numbered 3, 1, 2 were handed over in that order,
\* the image of panel 1 does not load; panel 2 is pasted first, panel 3
\* second.
C16_Witness ==
    /\ pc = "returned" /\ grid # None
    /\ Len(panel_images) = 3
    /\ panel_images[1].panel_number = 3
    /\ panel_images[2].panel_number = 1
    /\ panel_images[3].panel_number = 2
    /\ CorruptFiles = {panel_images[2].image_path}
    /\ grid.bordered_panels[1].panel.src = panel_images[3].image_path
    /\ grid.bordered_panels[2].panel.src = panel_images[1].image_path

Providers == {"Flux", "Stable Diffusion", "placeholder"}

\* The states of C17: Stable Diffusion is only ever called right after
\* Flux, and with a client the placeholder only right after Stable
\* Diffusion; without a client neither model is called and every panel is a
\* placeholder; the provider that opens a panel's attempts (Flux with a
\* client, else the placeholder) has been called once per panel taken up.
C17_ProvidersInOrderState ==
    /\ \A k \in 1..Len(calls) :
         /\ calls[k] = "Stable Diffusion" => (k > 1 /\ calls[k - 1] = "Flux")
         /\ (calls[k] = "placeholder" /\ client)
              => (k > 1 /\ calls[k - 1] = "Stable Diffusion")
    /\ ~client
         => /\ ~Called("Flux") /\ ~Called("Stable Diffusion")
            /\ \A k \in 1..Len(panel_images) :
                 files[panel_images[k].image_path] = "placeholder"
    /\ CountCalls(IF client THEN "Flux" ELSE "placeholder")
         \in {Len(panel_images), Len(panel_images) + 1}
    /\ CountCalls(IF client THEN "Flux" ELSE "placeholder")
         <= Len(PanelsOf(script))
    /\ Called("assemble")
         => CountCalls(IF client THEN "Flux" ELSE "placeholder")
              = Len(panel_images)

\* The steps of C17: the provider that opens a panel's attempts is called
\* when every panel taken up before is rendered; a later provider is called
\* only while the panel at hand is not rendered, that is after the earlier
\* ones have failed for it; a step that renders a panel is a provider's
\* call, the panel's file is that provider's, and so the attempts end.
C17_ProvidersInOrderStep ==
    /\ (Len(calls') > Len(calls) /\ calls'[Len(calls')] \in Providers)
         => Len(panel_images)
              = IF calls'[Len(calls')] = (IF client THEN "Flux" ELSE "placeholder")
                   THEN CountCalls(IF client THEN "Flux" ELSE "placeholder")
                   ELSE CountCalls("Flux") - 1
    /\ Len(panel_images') > Len(panel_images)
         => /\ Len(calls') > Len(calls)
            /\ calls'[Len(calls')] \in Providers
            /\ files'[panel_images'[Len(panel_images')].image_path]
                 = calls'[Len(calls')]

\* C17: for each panel the providers are tried in the order Flux, Stable
\* Diffusion, placeholder, each at most once, a later one only after the
\* earlier ones failed, the first success ending the attempts; without a
\* client neither model is called and the placeholder is used.
C17_ProvidersTriedInOrder ==
    /\ []C17_ProvidersInOrderState
    /\ [][C17_ProvidersInOrderStep]_vars

\* C17 witness: with a client, the first panel was rendered by Stable
\* Diffusion after Flux failed, the second by the placeholder after both
\* models failed.
C17_Witness ==
    /\ pc = "assemble" /\ client
    /\ calls = <<"fetch", "script", "describe", "Flux", "Stable Diffusion",
                 "Flux", "Stable Diffusion", "placeholder">>
    /\ files[panel_images[1].image_path] = "Stable Diffusion"
    /\ files[panel_images[2].image_path] = "placeholder"

\* C18 (as claimed): for every non-empty dialogue drawn on a 512 x 512
\* panel, whatever the number of wrapped lines, the bubble's box lies inside
\* the panel: 0 <= bubble_y and bubble_y + bubble_height <= 512, with
\* bubble_height = lineCount x 35 + 2 x 25.
C18_BubbleInsidePanel ==
    (pc = "returned" /\ bubble # None /\ Truthy(bubble.text)
     /\ bubble.image.width = 512 /\ bubble.image.height = 512)
        => /\ Len(bubble.image.drawn) >= 2
           /\ bubble.image.drawn[2].op = "ellipse"
           /\ bubble.image.drawn[2].at[4] - bubble.image.drawn[2].at[2]
                = Len(WrappedLines(bubble.text)) * 35 + 2 * 25
           /\ 0 <= bubble.image.drawn[2].at[2]
           /\ bubble.image.drawn[2].at[4] <= 512

====
